---------------------------- MODULE Spec2Model ----------------------------
(***************************************************************************)
(* A model of charm_upgrade.py: the revision walk of                       *)
(* update_charm_revisions, the pass update_revision_commit that drives it  *)
(* over the catalog and saves revision_commit.json, the derivation         *)
(* update_branch_revision of branch_revision.json, update_branch_commit,   *)
(* the report, and main, which runs what the command line asks for.        *)
(*                                                                         *)
(* A JSON object is a function from its keys (strings) to its values.     *)
(* A revision is a decimal string, as in the JSON keys; str and int are    *)
(* the conversions between it and the number.  The charm store is the      *)
(* variable registry: the answer to a query is chosen when the query is    *)
(* first made and is the same for every later query of the same name.     *)
(***************************************************************************)
EXTENDS Integers, Sequences, FiniteSets, TLC

\* ------------------------------------------------------------ bounds
\* highest revision the charm store has published, in SpecWalk
MaxRev == 6
\* highest revision the charm store has published, in Spec
MaxPublished == 1
\* highest revision in revision_commit.json, in SpecDerive
MaxDeriveRev == 2
\* most revisions a charm has in revision_commit.json before a run
MaxSeed == 1
\* highest revision the charm store has published, in SpecMain
MaxMainRev == 2

\* ------------------------------------------------- program constants
\* `if missing_revs >= 3`
MISSING_LIMIT == 3

\* the head of the catalog: its first two charms
OPENSTACK_CHAMRS == <<"barbican-vault", "barbican">>

\* the charms of the catalog
Charms == {OPENSTACK_CHAMRS[k] : k \in 1..Len(OPENSTACK_CHAMRS)}

\* the commits the stores hold
Commits == {"X", "Y"}

\* ------------------------------------------------------- conversions
\* the decimal strings of 0, 1, 2, ...
RevStr == <<"0", "1", "2", "3", "4", "5", "6", "7", "8", "9", "10", "11", "12">>

\* str(n)
str(n) == RevStr[n + 1]

\* int(s) succeeds
IsInt(s) == \E n \in 0..(Len(RevStr) - 1) : RevStr[n + 1] = s

\* int(s), for a string that int accepts
int(s) == CHOOSE n \in 0..(Len(RevStr) - 1) : RevStr[n + 1] = s

\* the empty JSON object
EmptyMap == [k \in {} |-> ""]

VARIABLES
    file_revision_commit,  \* revision_commit.json: charm -> (revision -> commit)
    file_branch_commit,    \* branch_commit.json: charm -> (branch -> commit)
    file_branch_revision,  \* branch_revision.json: charm -> (branch -> revision)
    registry,              \* the charm store's answers so far: <<charm, rev>> -> <<rev, commit>>
    published,             \* charm -> the latest revision the charm store has of it
    pc,                    \* where the program is
    error,                 \* the exception that ended the program, or "none"
    charm_idx,             \* position of `charm` in OPENSTACK_CHAMRS (loop of update_revision_commit)
    current_revisions,     \* update_revision_commit's current_revisions
    n_rev,                 \* update_charm_revisions' n_rev
    missing_revs,          \* update_charm_revisions' missing_revs
    changed,               \* update_charm_revisions' changed, then update_revision_commit's
    revisions0,            \* history: `revisions` as passed to the call in progress
    fetched,               \* history: the revisions the walk of this call has requested, in order
    run_added,             \* history: the <<charm, rev, commit>> this run has put in a map
    saved,                 \* history: update_revision_commit saved after the last call
    commit_revision,       \* update_branch_revision's OPENSTACK_CHARMS_COMMIT_REVISION
    derive_runs,           \* history: the runs of update_branch_revision that saved: 0, 1, or 2 for more
    option,                \* the command line option of the process, "" for none
    pass,                  \* the function main has called last: "A", "B", "C", "report" or "none"
    called,                \* history: the charms this run of update_revision_commit has walked, in order
    after_complete,        \* history: the run of update_revision_commit before this one came to its end
    branch_data,           \* update_branch_commit's data: charm -> (branch -> commit)
    branch_fetched,        \* history: the charms whose repository update_branch_commit has asked for, in order
    apps,                  \* the applications of the juju status on stdin, in its order
    printed                \* the rows main has printed, header aside

vars == <<file_revision_commit, file_branch_commit, file_branch_revision,
          registry, published, pc, error, charm_idx, current_revisions,
          n_rev, missing_revs, changed, revisions0, fetched, run_added, saved,
          commit_revision, derive_runs, option, pass, called, after_complete,
          branch_data, branch_fetched, apps, printed>>

\* the state of update_branch_commit and of the report, and the command line
aside == <<option, branch_data, branch_fetched, apps, printed>>

\* what update_revision_commit leaves alone
derived == <<file_branch_commit, file_branch_revision, commit_revision, derive_runs, aside>>

files == <<file_revision_commit, derived>>

\* a variant of charm that goes through the catalog from its end
charmBackwards == OPENSTACK_CHAMRS[Len(OPENSTACK_CHAMRS) + 1 - charm_idx]

\* the loop variable `charm` of update_revision_commit and of update_branch_commit
charm == OPENSTACK_CHAMRS[charm_idx]

\* the argument `revisions` of update_charm_revisions: current_revisions[charm]
revisions == current_revisions[charm]

\* ------------------------------------------------------ the charm store
\* The JSON the charm store gives for a name: Id is the revision at the end of
\* its "Id" ("" when it has no Id, or one without '-'), vcs the commit of
\* Meta.extra-info.vcs-revisions[0] and repo_info the commit-sha-1 of the
\* repo-info file ("" when there is none).  The store names the revision it
\* was asked for, or its latest one when asked for none.
Responses(c, rev) ==
    LET id == IF rev = "" THEN str(published[c]) ELSE rev
    IN  {[Id |-> "", vcs |-> "", repo_info |-> ""]}
          \cup {[Id |-> id, vcs |-> v, repo_info |-> ""] : v \in Commits \cup {""}}
          \cup {[Id |-> id, vcs |-> "", repo_info |-> r] : r \in Commits}

\* get_revision_commit, from the data the store gave
get_revision_commit(data) ==
    IF data.Id # ""
    THEN <<data.Id, IF data.vcs # "" THEN data.vcs ELSE data.repo_info>>
    ELSE <<"", "">>

\* what get_revision_commit(c, rev) can return now
Fetch(c, rev) ==
    IF <<c, rev>> \in DOMAIN registry
    THEN {registry[<<c, rev>>]}
    ELSE {get_revision_commit(data) : data \in Responses(c, rev)}

\* the store has answered <<c, rev>> with res
Answered(c, rev, res) == (<<c, rev>> :> res) @@ registry

\* ------------------------------------------- update_charm_revisions
\* d[key] = value
Put(d, key, value) == (key :> value) @@ d

\* a variant of StoreLatest without the test: the latest revision is stored anew
StoreLatestAlways(revs, rev, commit) == Put(revs, rev, commit)

\* `if rev not in revisions: revisions[rev] = commit`
StoreLatest(revs, rev, commit) ==
    IF rev \notin DOMAIN revs THEN Put(revs, rev, commit) ELSE revs

\* a variant of Exists that skips nothing
ExistsNever(rev, revs) == FALSE

\* `if rev in revisions: ... continue`
Exists(rev, revs) == rev \in DOMAIN revs

\* `if rev and commit`
Found(res) == res[1] # "" /\ res[2] # ""

\* a variant of Abort with > for >=
AbortLate(missing) == missing > MISSING_LIMIT

\* `if missing_revs >= 3: break`
Abort(missing) == missing >= MISSING_LIMIT

\* a variant of Loop whose condition never ends the loop
LoopUnending(n) == "walk"

\* `while n_rev > 0`: where the walk goes after a pass of the loop
Loop(n) == IF n > 0 THEN "walk" ELSE "returned"

\* what the call has added to current_revisions[charm]
Added(c, old, new) == {<<c, k, new[k]>> : k \in DOMAIN new \ DOMAIN old}

\* lines 282-288: fetch the latest revision, store it if new, start the walk;
\* int(rev) raises ValueError when the store gave no revision
FetchLatest ==
    /\ pc = "call"
    /\ \E res \in Fetch(charm, "") :
         LET new == StoreLatest(revisions, res[1], res[2])
         IN  /\ registry' = Answered(charm, "", res)
             /\ current_revisions' = [current_revisions EXCEPT ![charm] = new]
             /\ changed' = IF res[1] \notin DOMAIN revisions THEN 1 ELSE 0
             /\ run_added' = run_added \cup Added(charm, revisions, new)
             /\ IF IsInt(res[1])
                THEN /\ n_rev' = int(res[1])
                     /\ pc' = Loop(int(res[1]))
                     /\ error' = error
                ELSE /\ n_rev' = n_rev
                     /\ pc' = "crashed"
                     /\ error' = "ValueError"
    /\ missing_revs' = 0
    /\ UNCHANGED <<files, pass, called, after_complete, published, charm_idx, revisions0, fetched, saved>>

\* a variant of WalkSkip that takes a revision in the map for a successful fetch
WalkSkipResets ==
    /\ pc = "walk"
    /\ n_rev > 0
    /\ Exists(str(n_rev - 1), revisions)
    /\ n_rev' = n_rev - 1
    /\ missing_revs' = 0
    /\ pc' = Loop(n_rev - 1)
    /\ UNCHANGED <<files, pass, called, after_complete, registry, published, error, charm_idx, current_revisions,
                   changed, revisions0, fetched, run_added, saved>>

\* lines 289-294: the revision is in the map already
WalkSkip ==
    /\ pc = "walk"
    /\ n_rev > 0
    /\ Exists(str(n_rev - 1), revisions)
    /\ n_rev' = n_rev - 1
    /\ pc' = Loop(n_rev - 1)
    /\ UNCHANGED <<files, pass, called, after_complete, registry, published, error, charm_idx, current_revisions,
                   missing_revs, changed, revisions0, fetched, run_added, saved>>

\* lines 289-301: the store has the revision and its commit
WalkFound ==
    /\ pc = "walk"
    /\ n_rev > 0
    /\ ~Exists(str(n_rev - 1), revisions)
    /\ \E res \in Fetch(charm, str(n_rev - 1)) :
         /\ Found(res)
         /\ registry' = Answered(charm, str(n_rev - 1), res)
         /\ current_revisions' =
                [current_revisions EXCEPT ![charm] = Put(revisions, res[1], res[2])]
         /\ run_added' = run_added \cup {<<charm, res[1], res[2]>>}
    /\ missing_revs' = 0
    /\ changed' = changed + 1
    /\ n_rev' = n_rev - 1
    /\ fetched' = Append(fetched, str(n_rev - 1))
    /\ pc' = Loop(n_rev - 1)
    /\ UNCHANGED <<files, pass, called, after_complete, published, error, charm_idx, revisions0, saved>>

\* lines 289-295, 302-307: the store gave no revision or no commit
WalkMissing ==
    /\ pc = "walk"
    /\ n_rev > 0
    /\ ~Exists(str(n_rev - 1), revisions)
    /\ \E res \in Fetch(charm, str(n_rev - 1)) :
         /\ ~Found(res)
         /\ registry' = Answered(charm, str(n_rev - 1), res)
    /\ missing_revs' = missing_revs + 1
    /\ n_rev' = n_rev - 1
    /\ fetched' = Append(fetched, str(n_rev - 1))
    /\ pc' = IF Abort(missing_revs + 1) THEN "returned" ELSE Loop(n_rev - 1)
    /\ UNCHANGED <<files, pass, called, after_complete, published, error, charm_idx, current_revisions, changed,
                   revisions0, run_added, saved>>

\* ---------------------------------------------- one call, any argument
\* the maps a charm can have in revision_commit.json when the store's latest
\* revision of it is top
SeedMaps(top) ==
    UNION {[ks -> Commits] : ks \in {s \in SUBSET {str(n) : n \in 0..top} :
                                        Cardinality(s) <= MaxSeed}}

\* update_revision_commit has loaded the file and calls
\* update_charm_revisions(charm, current_revisions[charm]) for the first charm
InitWalk ==
    /\ charm_idx = 1
    /\ \E top \in 0..MaxRev :
         /\ published = [c \in {OPENSTACK_CHAMRS[1]} |-> top]
         /\ \E seed \in SeedMaps(top) :
              /\ current_revisions = [c \in {OPENSTACK_CHAMRS[1]} |-> seed]
              /\ file_revision_commit = current_revisions
              /\ revisions0 = seed
    /\ file_branch_commit = EmptyMap
    /\ file_branch_revision = EmptyMap
    /\ commit_revision = EmptyMap
    /\ derive_runs = 0
    /\ option = "-r"
    /\ pass = "B"
    /\ called = <<OPENSTACK_CHAMRS[1]>>
    /\ after_complete = FALSE
    /\ branch_data = EmptyMap
    /\ branch_fetched = <<>>
    /\ apps = <<>>
    /\ printed = <<>>
    /\ registry = EmptyMap
    /\ pc = "call"
    /\ error = "none"
    /\ n_rev = 0
    /\ missing_revs = 0
    /\ changed = 0
    /\ fetched = <<>>
    /\ run_added = {}
    /\ saved = FALSE

NextWalk == FetchLatest \/ WalkSkip \/ WalkFound \/ WalkMissing

SpecWalk == InitWalk /\ [][NextWalk]_vars

\* the call is one thread of a running process: a statement that can run, runs
SpecWalkFair == SpecWalk /\ WF_vars(NextWalk)

\* ------------------------------------------- update_revision_commit
\* a variant of ShouldSave that saves after every charm
ShouldSaveAlways(chg) == TRUE

\* a variant of ShouldSave that takes one new revision for none
ShouldSaveSome(chg) == chg > 1

\* `if changed:`
ShouldSave(chg) == chg # 0

\* a variant of Loaded that gives every charm an empty map
LoadedFresh(file, c) == Put(file, c, EmptyMap)

\* lines 319-321: load the file, give a new charm an empty map
Loaded(file, c) == IF c \in DOMAIN file THEN file ELSE Put(file, c, EmptyMap)

\* main, `elif cli.update_revision_commit`: a run of update_revision_commit starts;
\* a process that has ended (finished, raised or was killed) can be followed by another
StartRevisionCommit ==
    /\ pc \in {"idle", "done", "crashed", "interrupted"}
    /\ pc' = "load"
    /\ error' = "none"
    /\ charm_idx' = 1
    /\ current_revisions' = EmptyMap
    /\ n_rev' = 0
    /\ missing_revs' = 0
    /\ changed' = 0
    /\ revisions0' = EmptyMap
    /\ fetched' = <<>>
    /\ run_added' = {}
    /\ saved' = FALSE
    /\ pass' = "B"
    /\ called' = <<>>
    /\ after_complete' = (pass = "B" /\ pc = "done")
    /\ UNCHANGED <<files, registry, published>>

\* lines 318-323: the next charm of the catalog, up to the call of update_charm_revisions
LoadCharm ==
    /\ pc = "load"
    /\ current_revisions' = Loaded(file_revision_commit, charm)
    /\ revisions0' = current_revisions'[charm]
    /\ fetched' = <<>>
    /\ called' = Append(called, charm)
    /\ pc' = "call"
    /\ UNCHANGED <<files, pass, after_complete, registry, published, error, charm_idx, n_rev, missing_revs,
                   changed, run_added, saved>>

\* lines 323-325 and the loop's step: the call has returned `changed`
SaveIfChanged ==
    /\ pc = "returned"
    /\ IF ShouldSave(changed)
       THEN /\ file_revision_commit' = current_revisions
            /\ saved' = TRUE
       ELSE /\ file_revision_commit' = file_revision_commit
            /\ saved' = FALSE
    /\ IF charm_idx < Len(OPENSTACK_CHAMRS)
       THEN /\ charm_idx' = charm_idx + 1
            /\ pc' = "load"
       ELSE /\ charm_idx' = charm_idx
            /\ pc' = "done"
    /\ UNCHANGED <<derived, pass, called, after_complete, registry, published, error,
                   current_revisions, n_rev, missing_revs, changed, revisions0, fetched,
                   run_added>>

\* the run is interrupted from outside: the process ends, the files stay
Interrupt ==
    /\ pc \in {"load", "call", "walk", "returned"}
    /\ pc' = "interrupted"
    /\ UNCHANGED <<files, pass, called, after_complete, registry, published, error, charm_idx, current_revisions, n_rev,
                   missing_revs, changed, revisions0, fetched, run_added, saved>>

\* revision_commit.json as earlier runs can have left it
SeedDocs ==
    {d \in UNION {[cs -> UNION {SeedMaps(published[c]) : c \in cs}] :
                    cs \in SUBSET Charms} :
        \A c \in DOMAIN d : d[c] \in SeedMaps(published[c])}

Init ==
    /\ published \in [Charms -> 0..MaxPublished]
    /\ derive_runs = 0
    /\ option = "-r"
    /\ pass = "none"
    /\ called = <<>>
    /\ after_complete = FALSE
    /\ branch_data = EmptyMap
    /\ branch_fetched = <<>>
    /\ apps = <<>>
    /\ printed = <<>>
    /\ file_revision_commit \in SeedDocs
    /\ file_branch_commit = EmptyMap
    /\ file_branch_revision = EmptyMap
    /\ commit_revision = EmptyMap
    /\ registry = EmptyMap
    /\ pc = "idle"
    /\ error = "none"
    /\ charm_idx = 1
    /\ current_revisions = EmptyMap
    /\ n_rev = 0
    /\ missing_revs = 0
    /\ changed = 0
    /\ revisions0 = EmptyMap
    /\ fetched = <<>>
    /\ run_added = {}
    /\ saved = FALSE

Next ==
    \/ StartRevisionCommit
    \/ LoadCharm
    \/ FetchLatest
    \/ WalkSkip
    \/ WalkFound
    \/ WalkMissing
    \/ SaveIfChanged
    \/ Interrupt

Spec == Init /\ [][Next]_vars

\* ------------------------------------------- update_branch_revision
\* the state of update_revision_commit, which update_branch_revision leaves alone
reconciler == <<file_revision_commit, registry, published, charm_idx, current_revisions,
                n_rev, missing_revs, changed, revisions0, fetched, run_added, saved,
                called, after_complete>>

\* the branches of the GitHub repositories
Branches == {"20.02", "20.05"}

\* the keys of a JSON object of revisions, in ascending or in descending order
Ordered(keys, asc) ==
    LET up == SelectSeq(RevStr, LAMBDA s : s \in keys)
    IN  IF asc THEN up ELSE [i \in 1..Len(up) |-> up[Len(up) + 1 - i]]

\* a variant of Larger without the comparison: the last revision of a commit wins
LargerAlways(rev, commits, commit) == TRUE

\* `if int(rev) > int(commits.get(commit, 0))`
Larger(rev, commits, commit) ==
    int(rev) > (IF commit \in DOMAIN commits THEN int(commits[commit]) ELSE 0)

\* lines 332-336: the loop over revisions.items(), the items in the order of keys
RECURSIVE Invert(_, _, _)
Invert(revs, keys, commits) ==
    IF keys = <<>> THEN commits
    ELSE LET rev == Head(keys)
             commit == revs[rev]
         IN  Invert(revs, Tail(keys),
                    IF Larger(rev, commits, commit) THEN Put(commits, commit, rev)
                    ELSE commits)

\* lines 344-348: the branches of one charm that have a revision
BranchRevision(dict_branch_commit, commits) ==
    LET rev(branch) == IF dict_branch_commit[branch] \in DOMAIN commits
                       THEN commits[dict_branch_commit[branch]] ELSE ""
    IN  [branch \in {b \in DOMAIN dict_branch_commit : rev(b) # ""} |-> rev(branch)]

\* lines 330-337: load revision_commit.json and invert every charm's map;
\* int(rev) raises ValueError for a key that is no number
InvertRevisions ==
    /\ pc \in {"idle", "done", "crashed"}
    /\ IF \A c \in DOMAIN file_revision_commit :
            \A rev \in DOMAIN file_revision_commit[c] : IsInt(rev)
       THEN /\ \E asc \in BOOLEAN :
                 commit_revision' =
                    [c \in DOMAIN file_revision_commit |->
                        Invert(file_revision_commit[c],
                               Ordered(DOMAIN file_revision_commit[c], asc), EmptyMap)]
            /\ pc' = "inverted"
            /\ error' = "none"
       ELSE /\ commit_revision' = commit_revision
            /\ pc' = "crashed"
            /\ error' = "ValueError"
    /\ pass' = "C"
    /\ UNCHANGED <<reconciler, aside, file_branch_commit, file_branch_revision, derive_runs>>

\* lines 340-351: load branch_commit.json, look every branch's commit up, save
\* branch_revision.json; OPENSTACK_CHARMS_COMMIT_REVISION[charm] raises KeyError
\* for a charm that revision_commit.json has not
DeriveBranchRevision ==
    /\ pc = "inverted"
    /\ IF \A c \in DOMAIN file_branch_commit : c \in DOMAIN commit_revision
       THEN /\ file_branch_revision' =
                    [c \in DOMAIN file_branch_commit |->
                        BranchRevision(file_branch_commit[c], commit_revision[c])]
            /\ derive_runs' = IF derive_runs = 0 THEN 1 ELSE 2
            /\ pc' = "done"
            /\ error' = error
       ELSE /\ file_branch_revision' = file_branch_revision
            /\ derive_runs' = derive_runs
            /\ pc' = "crashed"
            /\ error' = "KeyError"
    /\ UNCHANGED <<reconciler, aside, pass, file_branch_commit, commit_revision>>

\* the maps of a charm in revision_commit.json, revisions up to MaxDeriveRev
DeriveMaps == UNION {[ks -> Commits] : ks \in SUBSET {str(n) : n \in 0..MaxDeriveRev}}

\* the maps of a charm in branch_commit.json
BranchMaps == UNION {[bs -> Commits] : bs \in SUBSET Branches}

\* update_branch_commit has written branch_commit.json for the catalog and
\* update_revision_commit has left revision_commit.json, with or without a
\* charm of the catalog
InitDerive ==
    /\ file_branch_commit \in [Charms -> BranchMaps]
    /\ file_revision_commit \in UNION {[cs -> DeriveMaps] : cs \in SUBSET Charms}
    /\ file_branch_revision = EmptyMap
    /\ commit_revision = EmptyMap
    /\ derive_runs = 0
    /\ option = "-B"
    /\ pass = "none"
    /\ called = <<>>
    /\ after_complete = FALSE
    /\ branch_data = EmptyMap
    /\ branch_fetched = <<>>
    /\ apps = <<>>
    /\ printed = <<>>
    /\ published = [c \in Charms |-> 0]
    /\ registry = EmptyMap
    /\ pc = "idle"
    /\ error = "none"
    /\ charm_idx = 1
    /\ current_revisions = EmptyMap
    /\ n_rev = 0
    /\ missing_revs = 0
    /\ changed = 0
    /\ revisions0 = EmptyMap
    /\ fetched = <<>>
    /\ run_added = {}
    /\ saved = FALSE

NextDerive == InvertRevisions \/ DeriveBranchRevision

SpecDerive == InitDerive /\ [][NextDerive]_vars

\* ------------------------------------------------ update_branch_commit
\* what get_repo_branch_commit_map can return: a repository without stable
\* branches, or with a commit at the head of each
RepoMaps == {EmptyMap, [b \in Branches |-> IF b = "20.02" THEN "X" ELSE "Y"]}

\* main, `if cli.update_branch_commit`: update_branch_commit starts on the catalog
StartBranchCommit ==
    /\ pc = "idle"
    /\ pc' = "branches"
    /\ pass' = "A"
    /\ error' = "none"
    /\ charm_idx' = 1
    /\ branch_data' = EmptyMap
    /\ branch_fetched' = <<>>
    /\ UNCHANGED <<file_revision_commit, file_branch_commit, file_branch_revision,
                   commit_revision, derive_runs, registry, published, current_revisions,
                   n_rev, missing_revs, changed, revisions0, fetched, run_added, saved,
                   called, after_complete, option, apps, printed>>

\* line 312: the comprehension's next charm; GitHub gives the branches of its
\* repository, or something that is no list of branches and the lookup of
\* branch['ref'] raises
FetchBranches ==
    /\ pc = "branches"
    /\ branch_fetched' = Append(branch_fetched, charm)
    /\ \/ /\ \E m \in RepoMaps : branch_data' = Put(branch_data, charm, m)
          /\ IF charm_idx < Len(OPENSTACK_CHAMRS)
             THEN /\ charm_idx' = charm_idx + 1
                  /\ pc' = "branches"
             ELSE /\ charm_idx' = charm_idx
                  /\ pc' = "collected"
          /\ error' = error
       \/ /\ branch_data' = branch_data
          /\ charm_idx' = charm_idx
          /\ pc' = "crashed"
          /\ error' = "TypeError"
    /\ UNCHANGED <<file_revision_commit, file_branch_commit, file_branch_revision,
                   commit_revision, derive_runs, registry, published, current_revisions,
                   n_rev, missing_revs, changed, revisions0, fetched, run_added, saved,
                   called, after_complete, option, pass, apps, printed>>

\* a variant of SaveBranchCommit that saves to FILE_BRANCH_REVISION
SaveBranchCommitElsewhere ==
    /\ pc = "collected"
    /\ file_branch_revision' = branch_data
    /\ pc' = "done"
    /\ UNCHANGED <<file_revision_commit, file_branch_commit,
                   commit_revision, derive_runs, registry, published, error, charm_idx,
                   current_revisions, n_rev, missing_revs, changed, revisions0, fetched,
                   run_added, saved, called, after_complete, option, pass, branch_data,
                   branch_fetched, apps, printed>>

\* line 313: save_json(FILE_BRANCH_COMMIT, data)
SaveBranchCommit ==
    /\ pc = "collected"
    /\ file_branch_commit' = branch_data
    /\ pc' = "done"
    /\ UNCHANGED <<file_revision_commit, file_branch_revision,
                   commit_revision, derive_runs, registry, published, error, charm_idx,
                   current_revisions, n_rev, missing_revs, changed, revisions0, fetched,
                   run_added, saved, called, after_complete, option, pass, branch_data,
                   branch_fetched, apps, printed>>


\* ---------------------------------------------------------- the report
\* most applications in the juju status
MaxApps == 2
\* highest revision in revision_commit.json when branch_revision.json was
\* derived for the report
MaxReportRev == 1

\* `NA = '--'`
NA == "--"

\* `ORDER_MAX = 999`
ORDER_MAX == 999

\* the tail of BRANCHES: the columns of the report
BRANCHES == <<"20.02", "20.05">>

\* the head of the auxiliary catalog: its first charm
LMA_CHARMS == <<"canonical-livepatch">>

\* line 79: charm -> its index in OPENSTACK_CHAMRS + LMA_CHARMS, the last one
\* if it is there twice
ORDERS ==
    LET all == OPENSTACK_CHAMRS \o LMA_CHARMS
    IN  [c \in {all[i] : i \in 1..Len(all)} |->
            (CHOOSE i \in 1..Len(all) :
                all[i] = c /\ \A k \in (i + 1)..Len(all) : all[k] # c) - 1]

\* a variant of order with 0 for a charm of no catalog
orderFirst(charm_name) ==
    IF charm_name \in DOMAIN ORDERS THEN ORDERS[charm_name] ELSE 0

\* `ORDERS.get(charm_name, ORDER_MAX)`
order(charm_name) ==
    IF charm_name \in DOMAIN ORDERS THEN ORDERS[charm_name] ELSE ORDER_MAX

\* lines 430-439: the list of applications, each with its order
Merged(status) ==
    [i \in 1..Len(status) |->
        [name |-> status[i].name, charm_name |-> status[i].charm_name,
         charm_rev |-> status[i].charm_rev, order |-> order(status[i].charm_name)]]

\* `sorted(apps, key=lambda app: app['order'])`: the sort is stable, an
\* application goes behind those before it in the list that have its order
RECURSIVE sorted(_)
sorted(list) ==
    IF list = <<>> THEN <<>>
    ELSE LET front == sorted(SubSeq(list, 1, Len(list) - 1))
             last == list[Len(list)]
             k == Cardinality({i \in 1..Len(front) : front[i].order <= last.order})
         IN  SubSeq(front, 1, k) \o <<last>> \o SubSeq(front, k + 1, Len(front))

\* a variant of yesno with the two values exchanged
yesnoExchanged(boolean, yes, no) == IF boolean THEN no ELSE yes

\* `(no, yes)[boolean]`
yesno(boolean, yes, no) == IF boolean THEN yes ELSE no

\* mark_revs: current_rev is the number of the juju status, 0 is false;
\* str(rev) of a string is the string
mark_revs(revs, current_rev) ==
    IF current_rev # 0
    THEN [i \in 1..Len(revs) |-> yesno(str(current_rev) = revs[i], "*", "") \o revs[i]]
    ELSE revs

\* `branch_to_revision.get(charm_name, {}).get(branch, '')`
RevOf(branch_to_revision, charm_name, branch) ==
    IF charm_name \in DOMAIN branch_to_revision
       /\ branch \in DOMAIN branch_to_revision[charm_name]
    THEN branch_to_revision[charm_name][branch] ELSE ""

\* lines 444-462: the arguments of print_app for every application of the
\* list; print_app formats the order, a number or NA, as a string
Rows(list, branch_to_revision) ==
    [i \in 1..Len(list) |->
        [order |-> IF list[i].order = ORDER_MAX THEN NA ELSE str(list[i].order),
         name |-> list[i].name,
         revs |-> mark_revs([b \in 1..Len(BRANCHES) |->
                                RevOf(branch_to_revision, list[i].charm_name, BRANCHES[b])],
                            list[i].charm_rev)]]

\* the names of the applications of a juju status, in its order
AppNames == <<"api", "vault", "db", "zulu">>

\* the charms of the applications: of the two catalogs and of none
AppCharms == Charms \cup {LMA_CHARMS[1], "ubuntu"}

\* the juju statuses: up to MaxApps applications, each with charm-name and charm-rev
Statuses ==
    UNION {{[i \in 1..n |-> [name |-> AppNames[i], charm_name |-> f[i][1],
                             charm_rev |-> f[i][2]]] :
              f \in [1..n -> AppCharms \X (0..(MaxReportRev + 1))]} : n \in 0..MaxApps}

\* lines 421-462: read the juju status, merge, load branch_revision.json, print
Report ==
    /\ pc = "idle"
    /\ \E status \in Statuses :
         /\ apps' = status
         /\ printed' = Rows(sorted(Merged(status)), file_branch_revision)
    /\ pass' = "report"
    /\ pc' = "done"
    /\ UNCHANGED <<file_revision_commit, file_branch_commit, file_branch_revision,
                   commit_revision, derive_runs, registry, published, error, charm_idx,
                   current_revisions, n_rev, missing_revs, changed, revisions0, fetched,
                   run_added, saved, called, after_complete, option, branch_data,
                   branch_fetched>>

\* the maps of a charm in revision_commit.json, revisions up to MaxReportRev
ReportMaps == UNION {[ks -> Commits] : ks \in SUBSET {str(n) : n \in 0..MaxReportRev}}

\* branch_revision.json as update_branch_revision writes it, or never written
ReportDocs ==
    {EmptyMap} \cup
    [Charms -> {BranchRevision(bc, Invert(rc, Ordered(DOMAIN rc, asc), EmptyMap)) :
                    bc \in BranchMaps, rc \in ReportMaps, asc \in BOOLEAN}]

InitReport ==
    /\ file_branch_revision \in ReportDocs
    /\ file_revision_commit = EmptyMap
    /\ file_branch_commit = EmptyMap
    /\ commit_revision = EmptyMap
    /\ derive_runs = 0
    /\ option = ""
    /\ pass = "none"
    /\ called = <<>>
    /\ after_complete = FALSE
    /\ branch_data = EmptyMap
    /\ branch_fetched = <<>>
    /\ apps = <<>>
    /\ printed = <<>>
    /\ published = [c \in Charms |-> 0]
    /\ registry = EmptyMap
    /\ pc = "idle"
    /\ error = "none"
    /\ charm_idx = 1
    /\ current_revisions = EmptyMap
    /\ n_rev = 0
    /\ missing_revs = 0
    /\ changed = 0
    /\ revisions0 = EmptyMap
    /\ fetched = <<>>
    /\ run_added = {}
    /\ saved = FALSE

NextReport == Report

SpecReport == InitReport /\ [][NextReport]_vars

\* ----------------------------------------------- main, one process
\* the options of the command line that choose what main does
Options == {"-b", "-r", "-B", "-a", ""}

\* lines 406-408, 415-416: -b and -a call update_branch_commit first
MainBranchCommit ==
    /\ option \in {"-b", "-a"}
    /\ StartBranchCommit

\* lines 409-411, 417: -r calls update_revision_commit, -a after update_branch_commit
MainRevisionCommit ==
    /\ \/ option = "-r" /\ pc = "idle"
       \/ option = "-a" /\ pc = "done" /\ pass = "A"
    /\ StartRevisionCommit

\* lines 412-414, 418: -B calls update_branch_revision, -a after update_revision_commit
MainBranchRevision ==
    /\ \/ option = "-B" /\ pc = "idle"
       \/ option = "-a" /\ pc = "done" /\ pass = "B"
    /\ InvertRevisions

\* lines 421-462: without one of these options main prints the report
MainReport ==
    /\ option = ""
    /\ Report

\* revision_commit.json before the process: empty or with revision 0 of every charm
MainSeedDocs == {EmptyMap, [c \in Charms |-> [r \in {"0"} |-> "X"]]}

\* branch_commit.json before the process: empty or with the branches of every charm
MainBranchDocs == {EmptyMap} \cup {[c \in Charms |-> m] : m \in RepoMaps \ {EmptyMap}}

InitMain ==
    /\ option \in Options
    /\ published \in [Charms -> 0..MaxMainRev]
    /\ file_revision_commit \in MainSeedDocs
    /\ file_branch_commit \in MainBranchDocs
    /\ file_branch_revision = EmptyMap
    /\ commit_revision = EmptyMap
    /\ derive_runs = 0
    /\ pass = "none"
    /\ called = <<>>
    /\ after_complete = FALSE
    /\ branch_data = EmptyMap
    /\ branch_fetched = <<>>
    /\ apps = <<>>
    /\ printed = <<>>
    /\ registry = EmptyMap
    /\ pc = "idle"
    /\ error = "none"
    /\ charm_idx = 1
    /\ current_revisions = EmptyMap
    /\ n_rev = 0
    /\ missing_revs = 0
    /\ changed = 0
    /\ revisions0 = EmptyMap
    /\ fetched = <<>>
    /\ run_added = {}
    /\ saved = FALSE

NextMain ==
    \/ MainBranchCommit
    \/ FetchBranches
    \/ SaveBranchCommit
    \/ MainRevisionCommit
    \/ LoadCharm
    \/ FetchLatest
    \/ WalkSkip
    \/ WalkFound
    \/ WalkMissing
    \/ SaveIfChanged
    \/ MainBranchRevision
    \/ DeriveBranchRevision
    \/ MainReport

SpecMain == InitMain /\ [][NextMain]_vars

\* ------------------------------------------------------------ claims
\* the store was asked for <<c, rev>> and gave no revision or no commit
Missed(c, rev) == <<c, rev>> \in DOMAIN registry /\ ~Found(registry[<<c, rev>>])

\* the store was asked for the latest revision of c and named rev
LatestIs(c, rev) == <<c, "">> \in DOMAIN registry /\ registry[<<c, "">>][1] = rev

\* the number of keys of a map
Size(d) == Cardinality(DOMAIN d)

\* the largest of a non-empty set of numbers
Max(S) == CHOOSE x \in S : \A y \in S : y <= x

\* the revisions of a map that have the commit
RevsOf(revs, commit) == {int(r) : r \in {k \in DOMAIN revs : revs[k] = commit}}

\* C1: the walk stops at the third miss in a row (the counter never passes 3,
\* and once it is 3 the call has returned), nothing below the walk's position
\* has been requested, and with latest 6 and misses at 5, 4, 3 the requests are
\* 5, 4, 3 and no more: 2, 1, 0 are neither requested nor added.
C1_AbortAtThirdMiss ==
    /\ missing_revs <= MISSING_LIMIT
    /\ (missing_revs = MISSING_LIMIT => pc = "returned")
    /\ \A k \in 1..Len(fetched) : int(fetched[k]) >= n_rev
    /\ (/\ LatestIs(charm, "6")
        /\ DOMAIN revisions0 \cap {"5", "4", "3"} = {}
        /\ Missed(charm, "5") /\ Missed(charm, "4") /\ Missed(charm, "3"))
       => /\ pc = "returned"
          /\ fetched = <<"5", "4", "3">>
          /\ \A r \in {"2", "1", "0"} :
               /\ <<charm, r>> \notin DOMAIN registry
               /\ r \in DOMAIN revisions => r \in DOMAIN revisions0

\* C1's case: latest 6, misses at 5, 4, 3, the call returned without revision 2
C1_Witness ==
    /\ pc = "returned"
    /\ LatestIs(charm, "6")
    /\ fetched = <<"5", "4", "3">>
    /\ missing_revs = MISSING_LIMIT
    /\ "2" \notin DOMAIN revisions

\* C2: a key of the map passed to the call keeps its commit and is never
\* requested by the walk.
C2_ExistingKeysUntouched ==
    \A k \in DOMAIN revisions0 :
        /\ k \in DOMAIN revisions
        /\ revisions[k] = revisions0[k]
        /\ \A j \in 1..Len(fetched) : fetched[j] # k

\* C2's case: the call returned, the latest revision was a key of the map and
\* the store gave another commit for it
C2_Witness ==
    /\ pc = "returned"
    /\ \E k \in DOMAIN revisions0 :
         /\ LatestIs(charm, k)
         /\ registry[<<charm, "">>][2] \notin {"", revisions0[k]}

\* C3 as claimed: no key of the map in memory or of revision_commit.json has
\* the empty commit.
C3_NoEmptyCommit ==
    /\ \A c \in DOMAIN file_revision_commit : \A r \in DOMAIN file_revision_commit[c] :
           file_revision_commit[c][r] # ""
    /\ \A c \in DOMAIN current_revisions : \A r \in DOMAIN current_revisions[c] :
           current_revisions[c][r] # ""

\* C4 as claimed: after the inversion every commit of a charm's map is a key of
\* the inverted map, with the largest revision that has the commit.
C4_InvertedLargestRevision ==
    pc = "inverted" =>
        \A c \in DOMAIN file_revision_commit : \A r \in DOMAIN file_revision_commit[c] :
            LET commit == file_revision_commit[c][r]
            IN  /\ commit \in DOMAIN commit_revision[c]
                /\ int(commit_revision[c][commit]) = Max(RevsOf(file_revision_commit[c], commit))

\* C5 as claimed: a latest revision fetched as ("", "") ends nothing: no exception.
C5_EmptyLatestNotFatal ==
    \A c \in Charms :
        (<<c, "">> \in DOMAIN registry /\ registry[<<c, "">>] = <<"", "">>)
            => (error = "none" /\ pc # "crashed")

Pos(c) == CHOOSE k \in 1..Len(OPENSTACK_CHAMRS) : OPENSTACK_CHAMRS[k] = c

C8_AppendOnly ==
    [][\A c \in DOMAIN file_revision_commit : \A r \in DOMAIN file_revision_commit[c] :
          /\ c \in DOMAIN file_revision_commit'
          /\ r \in DOMAIN file_revision_commit'[c]
          /\ file_revision_commit'[c][r] = file_revision_commit[c][r]]_vars

\* C8's case: the run saved the last charm's map, which has the latest revision
\* with another commit than the store gave for it
C8_Witness ==
    /\ pc = "done"
    /\ saved
    /\ \E r \in DOMAIN file_revision_commit[charm] :
         /\ LatestIs(charm, r)
         /\ registry[<<charm, "">>][2] \notin {"", file_revision_commit[charm][r]}

\* C9 as claimed: after update_branch_revision, branch_revision.json has for
\* every charm and branch of branch_commit.json the largest revision with the
\* branch's commit, and no entry for a branch whose commit has no revision.
C9_BranchRevisionExact ==
    pc = "done" =>
        \A c \in DOMAIN file_branch_commit :
            /\ c \in DOMAIN file_branch_revision
            /\ \A b \in DOMAIN file_branch_commit[c] :
                 LET commit == file_branch_commit[c][b]
                     revs == IF c \in DOMAIN file_revision_commit
                             THEN RevsOf(file_revision_commit[c], commit) ELSE {}
                 IN  /\ b \in DOMAIN file_branch_revision[c] <=> revs # {}
                     /\ revs # {} => int(file_branch_revision[c][b]) = Max(revs)

\* C10: the call returns the number of keys it added, and after the call
\* update_revision_commit has saved exactly when that number is not 0; what it
\* saved is the map in memory.
C10_ChangedCountsAndSaves ==
    /\ pc = "returned" => changed = Size(revisions) - Size(revisions0)
    /\ (pc = "done" \/ (pc = "load" /\ charm_idx > 1)) =>
          /\ saved <=> changed # 0
          /\ saved => file_revision_commit = current_revisions

\* C10's case: the run ended, the last call added nothing and nothing was saved
\* after it, an earlier call had added a revision
C10_Witness ==
    /\ pc = "done"
    /\ changed = 0
    /\ ~saved
    /\ run_added # {}

\* C11: a run of update_branch_revision after one that saved, on the same
\* branch_commit.json and revision_commit.json, leaves branch_revision.json as
\* that run left it, and no step of a run changes the two files it reads.
C11_DeriveIdempotent ==
    [][/\ file_branch_commit' = file_branch_commit
       /\ file_revision_commit' = file_revision_commit
       /\ derive_runs >= 1 => file_branch_revision' = file_branch_revision]_vars

\* C11's case: a second run has saved
C11_Witness ==
    /\ pc = "done"
    /\ derive_runs = 2
    /\ \E c \in DOMAIN file_branch_revision : file_branch_revision[c] # EmptyMap

\* the number of fetches at the end of the walk's requests that gave no
\* revision or no commit
RECURSIVE TrailingMisses(_, _)
TrailingMisses(c, revs) ==
    IF revs = <<>> \/ ~Missed(c, revs[Len(revs)]) THEN 0
    ELSE 1 + TrailingMisses(c, SubSeq(revs, 1, Len(revs) - 1))

\* C15: the miss counter is the number of empty fetches since the last
\* successful fetch of this call, whatever revisions were skipped in between
\* (a skip neither adds to it nor resets it, only a fetch with revision and
\* commit resets it), and the walk is over as soon as that number is 3.
C15_SkipsKeepMissCount ==
    /\ missing_revs = TrailingMisses(charm, fetched)
    /\ (pc = "walk" => TrailingMisses(charm, fetched) < MISSING_LIMIT)
    /\ (TrailingMisses(charm, fetched) >= MISSING_LIMIT
            => pc = "returned" /\ TrailingMisses(charm, fetched) = MISSING_LIMIT)

\* C15's case: the walk stopped at the third miss with a revision of the map
\* skipped between the first and the third
C15_Witness ==
    /\ pc = "returned"
    /\ missing_revs = MISSING_LIMIT
    /\ Len(fetched) >= MISSING_LIMIT
    /\ \E k \in DOMAIN revisions0 :
         /\ int(k) < int(fetched[Len(fetched) - 2])
         /\ int(k) > int(fetched[Len(fetched)])

\* C18: a call whose latest revision is a number L comes to its end, and on
\* the way the walk requests only revisions from L-1 down to 0, each at most
\* once, so at most L of them.
C18_WalkTerminates ==
    /\ [](\A L \in 0..(Len(RevStr) - 1) : LatestIs(charm, str(L)) =>
            /\ Len(fetched) <= L
            /\ \A k \in 1..Len(fetched) : int(fetched[k]) \in 0..(L - 1)
            /\ \A j, k \in 1..Len(fetched) : fetched[j] = fetched[k] => j = k)
    /\ <>(pc \in {"returned", "crashed"})

\* C18's case: a call with a latest revision above 0 has returned after one
\* request for every revision below it
C18_Witness ==
    /\ pc = "returned"
    /\ n_rev = 0
    /\ Len(fetched) > 1
    /\ LatestIs(charm, str(Len(fetched)))

\* C16: in a run of update_revision_commit that follows one that came to its
\* end, with the store's answers as they were, no call adds a revision (every
\* call returns 0), nothing is saved, and revision_commit.json stays as it is.
C16_SecondRunAddsNothing ==
    after_complete =>
        /\ run_added = {}
        /\ changed = 0
        /\ ~saved
        /\ pc \notin {"crashed"}
        /\ \A c \in DOMAIN current_revisions :
             /\ c \in DOMAIN file_revision_commit
             /\ current_revisions[c] = file_revision_commit[c]

\* C16's case: the run after a complete one has come to its end too, and the
\* first had found a revision below the latest
C16_Witness ==
    /\ after_complete
    /\ pc = "done"
    /\ called = OPENSTACK_CHAMRS
    /\ \E c \in Charms : \E r \in DOMAIN file_revision_commit[c] :
         /\ <<c, r>> \in DOMAIN registry
         /\ Found(registry[<<c, r>>])
\* s is the catalog up to some charm, in the catalog's order
CatalogPrefix(s) ==
    /\ Len(s) <= Len(OPENSTACK_CHAMRS)
    /\ \A k \in 1..Len(s) : s[k] = OPENSTACK_CHAMRS[k]

\* C12: update_branch_commit asks for the repositories, and
\* update_revision_commit walks the charms, one after the other in the order
\* of the catalog (the store has been asked only for charms the run has come
\* to), and the revisions a walk requests go strictly down, all of them below
\* the latest revision and none below 0.
C12_CatalogOrderDescendingWalk ==
    /\ CatalogPrefix(branch_fetched)
    /\ CatalogPrefix(called)
    /\ pass = "A" /\ pc = "branches" => Len(branch_fetched) = charm_idx - 1
    /\ pass = "B" /\ pc \in {"call", "walk", "returned"} => Len(called) = charm_idx
    /\ \A q \in DOMAIN registry : \E k \in 1..Len(called) : called[k] = q[1]
    /\ \A j, k \in 1..Len(fetched) : j < k => int(fetched[j]) > int(fetched[k])
    /\ \A k \in 1..Len(fetched) :
         /\ int(fetched[k]) >= 0
         /\ \E L \in 1..(Len(RevStr) - 1) :
              LatestIs(called[Len(called)], str(L)) /\ int(fetched[k]) < L

\* C12's case: -a has gone through the catalog in both passes, and the walk of
\* the last charm has requested two revisions
C12_Witness ==
    /\ option = "-a"
    /\ pass = "B"
    /\ pc = "done"
    /\ branch_fetched = OPENSTACK_CHAMRS
    /\ called = OPENSTACK_CHAMRS
    /\ Len(fetched) >= 2

\* the place in `apps` of the application of the i-th printed row
Src(i) == CHOOSE a \in 1..Len(apps) : apps[a].name = printed[i].name

\* the catalogs, one after the other
Catalogs == OPENSTACK_CHAMRS \o LMA_CHARMS

\* the charm is in a catalog
Ranked(c) == \E k \in 1..Len(Catalogs) : Catalogs[k] = c

\* the 0-based position of a charm of the catalogs
CatalogPos(c) == (CHOOSE k \in 1..Len(Catalogs) : Catalogs[k] = c) - 1

\* C13: the report has one row for every application; a row shows the
\* 0-based position of the application's charm in the two catalogs, or NA for
\* a charm of neither; the rows go up in that position, every row of a charm
\* of no catalog comes after every row of a charm of a catalog whatever the
\* names are, and rows of the same order are in the order of the input.
C13_ReportSortedByOrder ==
    pass = "report" =>
        /\ Len(printed) = Len(apps)
        /\ \A a \in 1..Len(apps) : \E i \in 1..Len(printed) : printed[i].name = apps[a].name
        /\ \A i \in 1..Len(printed) :
             printed[i].order = IF Ranked(apps[Src(i)].charm_name)
                                THEN str(CatalogPos(apps[Src(i)].charm_name)) ELSE NA
        /\ \A i, j \in 1..Len(printed) : i < j =>
             LET a == apps[Src(i)].charm_name
                 b == apps[Src(j)].charm_name
             IN  /\ Ranked(b) => Ranked(a) /\ CatalogPos(a) <= CatalogPos(b)
                 /\ (Ranked(a) <=> Ranked(b))
                    /\ (Ranked(a) => CatalogPos(a) = CatalogPos(b))
                       => Src(i) < Src(j)

\* C13's case: the first application of the status has a charm of no catalog
\* and the name that sorts first, the second a charm of a catalog, and the
\* report has printed the second before the first
C13_Witness ==
    /\ pass = "report"
    /\ Len(apps) = 2
    /\ ~Ranked(apps[1].charm_name)
    /\ Ranked(apps[2].charm_name)
    /\ printed[1].name = apps[2].name
    /\ printed[2].name = apps[1].name
    /\ printed[2].order = NA

\* C14: a cell of a row is the revision of branch_revision.json for the
\* application's charm and the column's branch, with the marker in front of it
\* exactly when that revision is the decimal string of the application's
\* charm-rev; every other cell, a blank one too, is the bare revision.
C14_MarkerIffCurrentRevision ==
    pass = "report" =>
        \A i \in 1..Len(printed) : \A b \in 1..Len(BRANCHES) :
            LET app == apps[Src(i)]
                rev == RevOf(file_branch_revision, app.charm_name, BRANCHES[b])
            IN  /\ Len(printed[i].revs) = Len(BRANCHES)
                /\ printed[i].revs[b] =
                      IF rev = str(app.charm_rev) THEN "*" \o rev ELSE rev
                /\ rev = "" => printed[i].revs[b] = ""

\* C14's case: a row with the marker at the first branch, whose revision is
\* the application's, and a blank second cell
C14_Witness ==
    /\ pass = "report"
    /\ \E i \in 1..Len(printed) :
         /\ apps[Src(i)].charm_rev = 1
         /\ printed[i].revs = <<"*1", "">>

\* C17: a step of update_branch_commit leaves revision_commit.json and
\* branch_revision.json as they are, a step of update_revision_commit leaves
\* branch_commit.json and branch_revision.json, a step of
\* update_branch_revision leaves the two files it reads and asks neither the
\* charm store nor GitHub, a step of the report leaves all three files; so a
\* file changes only in a step of its own pass.
C17_EachPassItsOwnFile ==
    [][/\ pass' = "A" => /\ file_revision_commit' = file_revision_commit
                         /\ file_branch_revision' = file_branch_revision
       /\ pass' = "B" => /\ file_branch_commit' = file_branch_commit
                         /\ file_branch_revision' = file_branch_revision
       /\ pass' = "C" => /\ file_branch_commit' = file_branch_commit
                         /\ file_revision_commit' = file_revision_commit
                         /\ registry' = registry
                         /\ fetched' = fetched
                         /\ branch_fetched' = branch_fetched
       /\ pass' = "report" => /\ file_branch_commit' = file_branch_commit
                              /\ file_revision_commit' = file_revision_commit
                              /\ file_branch_revision' = file_branch_revision
       /\ file_branch_commit' # file_branch_commit => pass = "A" /\ pass' = "A"
       /\ file_revision_commit' # file_revision_commit => pass = "B" /\ pass' = "B"
       /\ file_branch_revision' # file_branch_revision => pass = "C" /\ pass' = "C"]_vars

\* C17's case: -a has run the three passes and each has written its file
C17_Witness ==
    /\ option = "-a"
    /\ pass = "C"
    /\ pc = "done"
    /\ file_branch_commit = branch_data
    /\ \E c \in Charms : file_branch_commit[c] # EmptyMap
    /\ run_added # {}
    /\ \E c \in DOMAIN file_branch_revision : file_branch_revision[c] # EmptyMap

=============================================================================
